---- MODULE Spec2Model ----
(***************************************************************************)
(* Model of day1/httpie/src/main.rs: a command-line HTTP client that       *)
(* validates its arguments (parse_url, parse_kv_pair), sends one GET or    *)
(* POST request and prints the response (status, headers, body).           *)
(*                                                                         *)
(* Strings are sequences of one-character strings where the code looks at  *)
(* characters (key=value tokens), and sequences of lexemes (words and      *)
(* punctuation) where a library parser looks at them (URLs, MIME types).   *)
(***************************************************************************)
EXTENDS Integers, Sequences, FiniteSets, TLC

VARIABLES pc, argv, opts, errArg, requests, resp, hi, mime, text, stdout,
          exit, token, parsed

vars == <<pc, argv, opts, errArg, requests, resp, hi, mime, text, stdout,
          exit, token, parsed>>

\* ---------------------------------------------------------------- bounds
MaxTokenLen == 5
MaxBody == 3

\* ------------------------------------------------------------- utilities
None == [some |-> FALSE]
Some(x) == [some |-> TRUE, val |-> x]

Ok(x) == [ok |-> TRUE, val |-> x]
Err(e) == [ok |-> FALSE, err |-> e]

RECURSIVE SeqsUpTo(_, _)
SeqsUpTo(S, n) ==
    IF n = 0 THEN {<<>>}
    ELSE LET shorter == SeqsUpTo(S, n - 1)
         IN  shorter \cup {Append(s, c) : s \in shorter, c \in S}

\* ------------------------------------------------------- KvPair::from_str
\* s.split('='): the fields between every '=' of s, at least one field.
RECURSIVE split(_, _)
split(s, sep) ==
    IF \A i \in 1..Len(s) : s[i] # sep
    THEN <<s>>
    ELSE LET i == CHOOSE j \in 1..Len(s) :
                      s[j] = sep /\ \A m \in 1..(j - 1) : s[m] # sep
         IN  <<SubSeq(s, 1, i - 1)>> \o split(SubSeq(s, i + 1, Len(s)), sep)

\* A slip of from_str: a missing second field is taken as the empty value.
from_str_lenient(s) ==
    LET fields == split(s, "=")
    IN  Ok([k |-> fields[1],
            v |-> IF Len(fields) < 2 THEN <<>> ELSE fields[2]])

\* k is the first item of the split iterator, v the second; a missing item
\* is the error "Failed to parse<s>".
from_str(s) ==
    LET fields == split(s, "=")
    IN  IF Len(fields) < 1 THEN Err(s)
        ELSE IF Len(fields) < 2 THEN Err(s)
        ELSE Ok([k |-> fields[1], v |-> fields[2]])

parse_kv_pair(s) == from_str(s)

\* ----------------------------------------------------- Url::parse (line 39)
\* A URL argument is a sequence of lexemes: words, ":" and "/".
IsWord(x) == x \notin {":", "/"}
IsDigits(x) == x \in {"8080"}
\* A scheme starts with a letter (and goes on with letters, digits, + - .).
IsScheme(x) == IsWord(x) /\ ~IsDigits(x)
\* The schemes whose URLs must carry a host.
IsSpecial(x) == x \in {"http", "https", "ws", "wss", "ftp"}

RECURSIVE SkipSlashes(_)
SkipSlashes(s) ==
    IF s # <<>> /\ Head(s) = "/" THEN SkipSlashes(Tail(s)) ELSE s

RECURSIVE UpTo(_, _)
\* The lexemes of s before the first lexeme in the set stop.
UpTo(s, stop) ==
    IF s = <<>> \/ Head(s) \in stop THEN <<>>
    ELSE <<Head(s)>> \o UpTo(Tail(s), stop)

\* s.parse::<Url>(): a scheme followed by ":" is required (there is no base
\* URL); after a special scheme the slashes are skipped and a non-empty host
\* must follow, with an empty or numeric port; after any other scheme the
\* host is that of the authority after "//", if there is one.
UrlParse(s) ==
    IF ~(Len(s) >= 2 /\ IsScheme(s[1]) /\ s[2] = ":")
    THEN Err("RelativeUrlWithoutBase")
    ELSE
      LET scheme == s[1]
          rest == SubSeq(s, 3, Len(s))
          hasAuth == Len(rest) >= 2 /\ rest[1] = "/" /\ rest[2] = "/"
          auth == UpTo(SkipSlashes(rest), {"/"})
          host == UpTo(auth, {":"})
          port == SubSeq(auth, Len(host) + 2, Len(auth))
          portOk == port = <<>> \/ (Len(port) = 1 /\ IsDigits(port[1]))
      IN  IF IsSpecial(scheme)
          THEN IF host = <<>> THEN Err("EmptyHost")
               ELSE IF ~portOk THEN Err("InvalidPort")
               ELSE Ok([scheme |-> scheme, host |-> Some(host)])
          ELSE IF hasAuth /\ host # <<>>
               THEN IF ~portOk THEN Err("InvalidPort")
                    ELSE Ok([scheme |-> scheme, host |-> Some(host)])
               ELSE Ok([scheme |-> scheme, host |-> None])

\* parse_url: the argument itself when it parses as a Url, else the error.
parse_url(s) ==
    LET url == UrlParse(s)
    IN  IF url.ok THEN Ok(s) ELSE Err(url.err)

\* ------------------------------------------- mime and header values (158-163)
\* A header value is a sequence of lexemes; "\\xFF" stands for a byte that is
\* not visible ASCII.
to_str(v) ==
    IF \E i \in 1..Len(v) : v[i] = "\\xFF" THEN Err("ToStrError") ELSE Ok(v)

IsMimeToken(x) == x \notin {"/", ";", "=", "\\xFF"}

RECURSIVE MimeParams(_)
\* The parameters ";" name "=" value of a MIME type, or an error.
MimeParams(s) ==
    IF s = <<>> THEN Ok(<<>>)
    ELSE IF Len(s) >= 4 /\ s[1] = ";" /\ IsMimeToken(s[2]) /\ s[3] = "="
                        /\ IsMimeToken(s[4])
    THEN LET more == MimeParams(SubSeq(s, 5, Len(s)))
         IN  IF more.ok THEN Ok(<<<<s[2], s[4]>>>> \o more.val) ELSE more
    ELSE Err("FromStrError")

\* s.parse::<Mime>(): type "/" subtype and then the parameters.
MimeParse(s) ==
    IF Len(s) >= 3 /\ IsMimeToken(s[1]) /\ s[2] = "/" /\ IsMimeToken(s[3])
    THEN LET params == MimeParams(SubSeq(s, 4, Len(s)))
         IN  IF params.ok
             THEN Ok([type |-> s[1], subtype |-> s[3], params |-> params.val])
             ELSE params
    ELSE Err("FromStrError")

APPLICATION_JSON == [type |-> "application", subtype |-> "json", params |-> <<>>]

\* Mime == Mime compares type, subtype and parameters.
MimeEq(a, b) ==
    a.type = b.type /\ a.subtype = b.subtype /\ a.params = b.params

\* jsonxf::pretty_print(body): the re-indented text.
pretty_print(body) == <<"pretty", body>>

\* ------------------------------------------------------------------ inputs
Chars == {"a", "b", "="}
Tokens == SeqsUpTo(Chars, MaxTokenLen)

\* key=value arguments of a post command line.
ArgTokens ==
    { <<"a", "=", "1">>, <<"a", "=", "2">>, <<"b", "=", "2">>, <<"b", "=">>,
      <<"a">>, <<"a", "=", "b", "=", "2">> }

\* URL arguments: abc, /post, httpbin.org/post, http://, http://abc.xyz,
\* http://httpbin.org/post, mailto:abc, localhost:8080.
UrlArgs ==
    { <<"abc">>, <<"/", "post">>, <<"httpbin.org", "/", "post">>,
      <<"http", ":", "/", "/">>, <<"http", ":", "/", "/", "abc.xyz">>,
      <<"http", ":", "/", "/", "httpbin.org", "/", "post">>,
      <<"mailto", ":", "abc">>, <<"localhost", ":", "8080">> }

Argvs ==
    { [subcmd |-> "get", url |-> u, body |-> <<>>] : u \in UrlArgs }
    \cup { [subcmd |-> "post", url |-> u, body |-> b] :
             u \in UrlArgs, b \in SeqsUpTo(ArgTokens, MaxBody) }

Header(n, v) == [name |-> n, value |-> v]

ContentTypes ==
    { <<"application", "/", "json">>,
      <<"application", "/", "json", ";", "charset", "=", "utf-8">>,
      <<"text", "/", "plain">>,
      <<"garbage">>,
      <<"text", "/", "\\xFF">> }

HeaderLists ==
    { <<>>,
      << Header("set-cookie", <<"x">>),
         Header("content-type", <<"application", "/", "json">>),
         Header("set-cookie", <<"y">>) >> }
    \cup { << Header("content-type", v), Header("server", <<"nginx">>) >> :
             v \in ContentTypes }

\* What the transport can answer: the headers as resp.headers() iterates
\* them, the body, whether resp.text() delivers it, and the Result of
\* jsonxf::pretty_print on it.
Responses ==
    [ status : {"200"}, headers : HeaderLists, body : {"{\"x\":1}"},
      textOk : BOOLEAN, prettyOk : BOOLEAN ]

\* ------------------------------------------------------------------- state
Idle ==
    /\ opts = None
    /\ errArg = -1
    /\ requests = <<>>
    /\ resp = None
    /\ hi = 1
    /\ mime = None
    /\ text = None
    /\ stdout = <<>>
    /\ exit = "running"

Init ==
    /\ pc = "start"
    /\ argv \in Argvs
    /\ Idle
    /\ token = <<>>
    /\ parsed = None

\* --------------------------------------------------- Opts::from_args (89)
\* A body argument that does not parse is dropped instead of reported.
parse_body_skip(tokens) ==
    Ok([i \in 1..Len(SelectSeq(tokens, LAMBDA t : parse_kv_pair(t).ok)) |->
          parse_kv_pair(SelectSeq(tokens, LAMBDA t : parse_kv_pair(t).ok)[i]).val])

RECURSIVE parse_body(_)
\* body: Vec<KvPair>, each value through parse_kv_pair in argument order;
\* the error is the position of the first value that fails.
parse_body(tokens) ==
    IF tokens = <<>> THEN Ok(<<>>)
    ELSE LET first == parse_kv_pair(Head(tokens))
         IN  IF ~first.ok THEN Err(1)
             ELSE LET rest == parse_body(Tail(tokens))
                  IN  IF rest.ok THEN Ok(<<first.val>> \o rest.val)
                      ELSE Err(rest.err + 1)

\* The url is validated first, then the body values; a failure is a usage
\* error and the process exits non-zero before main goes on.
from_args ==
    /\ pc = "start"
    /\ LET u == parse_url(argv.url)
           b == parse_body(argv.body)
       IN  IF ~u.ok
           THEN /\ errArg' = 0
                /\ exit' = "error"
                /\ pc' = "done"
                /\ opts' = opts
           ELSE IF ~b.ok
           THEN /\ errArg' = b.err
                /\ exit' = "error"
                /\ pc' = "done"
                /\ opts' = opts
           ELSE /\ opts' = Some([subcmd |-> argv.subcmd, url |-> u.val,
                                 body |-> b.val])
                /\ pc' = "main"
                /\ UNCHANGED <<errArg, exit>>
    /\ UNCHANGED <<argv, requests, resp, hi, mime, text, stdout, token, parsed>>

\* println!("Opts: {:?}", opts)
print_opts ==
    /\ pc = "main"
    /\ stdout' = Append(stdout, [kind |-> "opts"])
    /\ pc' = "dispatch"
    /\ UNCHANGED <<argv, opts, errArg, requests, resp, hi, mime, text, exit,
                   token, parsed>>

\* ------------------------------------------------------------ get and post
\* What send().await yields: an error, or a response when the URL names a
\* host (the client refuses to build a request for a URL without one).
SendOutcomes(url) ==
    IF UrlParse(url).val.host.some
    THEN {Err("transport")} \cup {Ok(r) : r \in Responses}
    ELSE {Err("builder")}

\* send().await? : the error is returned from main, a response goes on to
\* print_resp.
Await(outcome) ==
    IF outcome.ok
    THEN /\ resp' = Some(outcome.val)
         /\ pc' = "print_status"
         /\ exit' = exit
    ELSE /\ resp' = resp
         /\ pc' = "done"
         /\ exit' = "error"

\* A get that sends the request again when the first send fails.
get_retry ==
    /\ pc = "dispatch"
    /\ opts.val.subcmd = "get"
    /\ \E o \in SendOutcomes(opts.val.url) :
         /\ requests' =
              IF o.ok
              THEN Append(requests,
                     [method |-> "GET", url |-> opts.val.url, json |-> None])
              ELSE requests \o
                     << [method |-> "GET", url |-> opts.val.url, json |-> None],
                        [method |-> "GET", url |-> opts.val.url, json |-> None] >>
         /\ Await(o)
    /\ UNCHANGED <<argv, opts, errArg, hi, mime, text, stdout, token, parsed>>

get ==
    /\ pc = "dispatch"
    /\ opts.val.subcmd = "get"
    /\ requests' = Append(requests,
                     [method |-> "GET", url |-> opts.val.url, json |-> None])
    /\ \E o \in SendOutcomes(opts.val.url) : Await(o)
    /\ UNCHANGED <<argv, opts, errArg, hi, mime, text, stdout, token, parsed>>

\* An insert that keeps the value a key already has.
insert_keep(m, k, v) ==
    [x \in DOMAIN m \cup {k} |-> IF x \in DOMAIN m THEN m[x] ELSE v]

\* HashMap::insert
insert(m, k, v) ==
    [x \in DOMAIN m \cup {k} |-> IF x = k THEN v ELSE m[x]]

RECURSIVE BuildBody(_, _)
\* for pair in args.body.iter() { body.insert(&pair.k, &pair.v); }
BuildBody(pairs, m) ==
    IF pairs = <<>> THEN m
    ELSE BuildBody(Tail(pairs), insert(m, Head(pairs).k, Head(pairs).v))

EmptyMap == [x \in {} |-> <<>>]

post ==
    /\ pc = "dispatch"
    /\ opts.val.subcmd = "post"
    /\ requests' = Append(requests,
                     [method |-> "POST", url |-> opts.val.url,
                      json |-> Some(BuildBody(opts.val.body, EmptyMap))])
    /\ \E o \in SendOutcomes(opts.val.url) : Await(o)
    /\ UNCHANGED <<argv, opts, errArg, hi, mime, text, stdout, token, parsed>>

\* ------------------------------------------------------------- print_resp
\* println!("{}\n", status)
print_status ==
    /\ pc = "print_status"
    /\ stdout' = Append(stdout, [kind |-> "status", status |-> resp.val.status])
    /\ hi' = 1
    /\ pc' = "print_headers"
    /\ UNCHANGED <<argv, opts, errArg, requests, resp, mime, text, exit,
                   token, parsed>>

HeaderLine(h) == [kind |-> "header", name |-> h.name, value |-> h.value]

\* A header loop that prints a repeated header name only once.
print_header_dedup ==
    /\ pc = "print_headers"
    /\ hi <= Len(resp.val.headers)
    /\ stdout' =
         IF \E j \in 1..(hi - 1) :
              resp.val.headers[j].name = resp.val.headers[hi].name
         THEN stdout
         ELSE Append(stdout, HeaderLine(resp.val.headers[hi]))
    /\ hi' = hi + 1
    /\ UNCHANGED <<pc, argv, opts, errArg, requests, resp, mime, text, exit,
                   token, parsed>>

\* One turn of the loop of print_headers: println!("{}: {:?}", name, value)
print_header ==
    /\ pc = "print_headers"
    /\ hi <= Len(resp.val.headers)
    /\ stdout' = Append(stdout, HeaderLine(resp.val.headers[hi]))
    /\ hi' = hi + 1
    /\ UNCHANGED <<pc, argv, opts, errArg, requests, resp, mime, text, exit,
                   token, parsed>>

\* After the loop of print_headers: println!("\n")
print_headers_end ==
    /\ pc = "print_headers"
    /\ hi > Len(resp.val.headers)
    /\ stdout' = Append(stdout, [kind |-> "blank"])
    /\ pc' = "get_content_type"
    /\ UNCHANGED <<argv, opts, errArg, requests, resp, hi, mime, text, exit,
                   token, parsed>>

\* headers().get(CONTENT_TYPE): the first value of that name.
HeaderGet(headers, name) ==
    IF \E i \in 1..Len(headers) : headers[i].name = name
    THEN Some(headers[CHOOSE i \in 1..Len(headers) :
                        /\ headers[i].name = name
                        /\ \A j \in 1..(i - 1) : headers[j].name # name].value)
    ELSE None

\* .map(|v| v.to_str().unwrap().parse().unwrap()): Ok(None) without the
\* header, Ok(Some(mime)) when it parses, Err when an unwrap panics.
content_type(headers) ==
    LET v == HeaderGet(headers, "content-type")
    IN  IF ~v.some THEN Ok(None)
        ELSE LET str == to_str(v.val)
             IN  IF ~str.ok THEN Err("panic")
                 ELSE LET m == MimeParse(str.val)
                      IN  IF ~m.ok THEN Err("panic") ELSE Ok(Some(m.val))

get_content_type ==
    /\ pc = "get_content_type"
    /\ LET m == content_type(resp.val.headers)
       IN  IF m.ok
           THEN /\ mime' = m.val
                /\ pc' = "text"
                /\ exit' = exit
           ELSE /\ mime' = mime
                /\ pc' = "done"
                /\ exit' = "panic"
    /\ UNCHANGED <<argv, opts, errArg, requests, resp, hi, text, stdout,
                   token, parsed>>

\* let body = resp.text().await?;
resp_text ==
    /\ pc = "text"
    /\ IF resp.val.textOk
       THEN /\ text' = Some(resp.val.body)
            /\ pc' = "print_body"
            /\ exit' = exit
       ELSE /\ text' = text
            /\ pc' = "done"
            /\ exit' = "error"
    /\ UNCHANGED <<argv, opts, errArg, requests, resp, hi, mime, stdout,
                   token, parsed>>

IsJson(m) == m.some /\ MimeEq(m.val, APPLICATION_JSON)

\* A print_body that writes the raw body before it panics on a
\* pretty_print error.
print_body_then_panic ==
    /\ pc = "print_body"
    /\ IF IsJson(mime) /\ resp.val.prettyOk
       THEN /\ stdout' = Append(stdout, [kind |-> "body", style |-> "pretty",
                                         text |-> pretty_print(text.val)])
            /\ exit' = "ok"
       ELSE /\ stdout' = Append(stdout, [kind |-> "body", style |-> "raw",
                                         text |-> text.val])
            /\ exit' = IF IsJson(mime) THEN "panic" ELSE "ok"
    /\ pc' = "done"
    /\ UNCHANGED <<argv, opts, errArg, requests, resp, hi, mime, text,
                   token, parsed>>

\* print_body, and the Ok(()) that print_resp and main return after it.
print_body ==
    /\ pc = "print_body"
    /\ IF IsJson(mime)
       THEN IF resp.val.prettyOk
            THEN /\ stdout' = Append(stdout, [kind |-> "body", style |-> "pretty",
                                              text |-> pretty_print(text.val)])
                 /\ exit' = "ok"
            ELSE /\ stdout' = stdout
                 /\ exit' = "panic"
       ELSE /\ stdout' = Append(stdout, [kind |-> "body", style |-> "raw",
                                         text |-> text.val])
            /\ exit' = "ok"
    /\ pc' = "done"
    /\ UNCHANGED <<argv, opts, errArg, requests, resp, hi, mime, text,
                   token, parsed>>

Next ==
    \/ from_args
    \/ print_opts
    \/ get
    \/ post
    \/ print_status
    \/ print_header
    \/ print_headers_end
    \/ get_content_type
    \/ resp_text
    \/ print_body

Spec == Init /\ [][Next]_vars

\* ------------------------------------------- parse_kv_pair on every token
InitKv ==
    /\ pc = "parse_kv_pair"
    /\ argv = [subcmd |-> "post", url |-> <<>>, body |-> <<>>]
    /\ Idle
    /\ token \in Tokens
    /\ parsed = None

call_parse_kv_pair ==
    /\ pc = "parse_kv_pair"
    /\ parsed' = Some(parse_kv_pair(token))
    /\ pc' = "parsed"
    /\ UNCHANGED <<argv, opts, errArg, requests, resp, hi, mime, text, stdout,
                   exit, token>>

NextKv == call_parse_kv_pair

SpecKv == InitKv /\ [][NextKv]_vars

\* ================================================================== claims
HasEq(s) == \E i \in 1..Len(s) : s[i] = "="
FirstEq(s) == CHOOSE i \in 1..Len(s) : s[i] = "=" /\ \A j \in 1..(i - 1) : s[j] # "="

\* C1: a token with at least one '=' parses, its key is the text before the
\* first '=' and its value is all of the text after the first '='.
C1_SplitsAtFirstEq ==
    (parsed.some /\ HasEq(token)) =>
        /\ parsed.val.ok
        /\ parsed.val.val.k = SubSeq(token, 1, FirstEq(token) - 1)
        /\ parsed.val.val.v = SubSeq(token, FirstEq(token) + 1, Len(token))

\* C2: a token without '=' (the empty token too) is an error and no KvPair
\* is constructed.
C2_NoSeparatorFails ==
    (parsed.some /\ ~HasEq(token)) =>
        /\ ~parsed.val.ok
        /\ "val" \notin DOMAIN parsed.val

C2_Witness ==
    /\ parsed.some
    /\ token = <<"a">>
    /\ ~parsed.val.ok

\* The pairs of the command that carry key k.
Carrying(pairs, k) == {i \in 1..Len(pairs) : pairs[i].k = k}
LastCarrying(pairs, k) ==
    CHOOSE i \in Carrying(pairs, k) : \A j \in Carrying(pairs, k) : j <= i

\* C3: the JSON object of a POST has exactly the keys of the command's body
\* pairs, each with the value of the last pair carrying it; an empty body
\* gives the empty object.
C3_LastWriteWins ==
    \A n \in 1..Len(requests) :
        requests[n].method = "POST" =>
            LET pairs == opts.val.body
                json == requests[n].json.val
            IN  /\ requests[n].json.some
                /\ DOMAIN json = {pairs[i].k : i \in 1..Len(pairs)}
                /\ \A k \in DOMAIN json : json[k] = pairs[LastCarrying(pairs, k)].v

C3_Witness ==
    /\ Len(requests) = 1
    /\ requests[1].method = "POST"
    /\ Len(opts.val.body) = 3
    /\ opts.val.body[1] = [k |-> <<"a">>, v |-> <<"1">>]
    /\ opts.val.body[2] = [k |-> <<"b">>, v |-> <<"2">>]
    /\ opts.val.body[3] = [k |-> <<"a">>, v |-> <<"2">>]
    /\ requests[1].json.val[<<"a">>] = <<"2">>

\* What print_resp has written: stdout without the Opts line of main.
RespOut == SelectSeq(stdout, LAMBDA e : e.kind # "opts")

BodyLines == SelectSeq(stdout, LAMBDA e : e.kind = "body")

\* The body was written once, re-indented.
PrintedPretty ==
    /\ Len(BodyLines) = 1
    /\ BodyLines[1].style = "pretty"
    /\ BodyLines[1].text = pretty_print(resp.val.body)

\* The body was written once, as the unmodified text.
PrintedRaw ==
    /\ Len(BodyLines) = 1
    /\ BodyLines[1].style = "raw"
    /\ BodyLines[1].text = resp.val.body

\* The MIME type is application/json, whatever its parameters.
EssenceIsJson(m) ==
    m.some /\ m.val.type = "application" /\ m.val.subtype = "json"

\* C4: with the Content-Type absent or parsing as a MIME type, a retrieved
\* body is pretty-printed exactly when the type is application/json,
\* parameters ignored; otherwise it is printed raw and no error occurs.
C4_JsonIgnoringParams ==
    (pc = "done" /\ text.some /\ content_type(resp.val.headers).ok) =>
        LET m == content_type(resp.val.headers).val
        IN  IF EssenceIsJson(m)
            THEN exit = "ok" =>
                   PrintedPretty
            ELSE /\ exit = "ok"
                 /\ PrintedRaw

\* The response has a Content-Type that is not header text or not a MIME type.
MalformedContentType ==
    /\ resp.some
    /\ HeaderGet(resp.val.headers, "content-type").some
    /\ LET v == HeaderGet(resp.val.headers, "content-type").val
       IN  ~to_str(v).ok \/ ~MimeParse(to_str(v).val).ok

\* C5: a malformed Content-Type gives an absent content-type and a raw body;
\* the process does not panic.
C5_MalformedDegrades ==
    (MalformedContentType /\ pc \in {"text", "print_body", "done"}) =>
        /\ exit # "panic"
        /\ mime = None
        /\ exit = "ok" => PrintedRaw

Failed == exit \in {"error", "panic"}

\* The status line, every header line in order and the blank line.
HeadPart(r) ==
    << [kind |-> "status", status |-> r.status] >>
    \o [i \in 1..Len(r.headers) |-> HeaderLine(r.headers[i])]
    \o << [kind |-> "blank"] >>

Dispatched == opts.some /\ pc \notin {"start", "main", "dispatch"}

\* C7: a run whose arguments validate sends exactly one request, a GET
\* without body for get and a POST with the JSON body for post, and never a
\* second one; a transport failure ends the run with the error.
C7_ExactlyOneRequest ==
    /\ Len(requests) <= 1
    /\ requests # <<>> => Dispatched
    /\ Dispatched =>
         /\ Len(requests) = 1
         /\ requests[1].url = opts.val.url
         /\ opts.val.subcmd = "get" =>
                requests[1].method = "GET" /\ ~requests[1].json.some
         /\ opts.val.subcmd = "post" =>
                requests[1].method = "POST" /\ requests[1].json.some
    /\ (Dispatched /\ ~resp.some) => (pc = "done" /\ exit = "error")

C7_Witness ==
    /\ Dispatched
    /\ opts.val.subcmd = "get"
    /\ UrlParse(opts.val.url).val.host.some
    /\ ~resp.some
    /\ exit = "error"
    /\ Len(requests) = 1

\* The string is an absolute URL with a scheme and a host.
HasSchemeAndHost(s) == UrlParse(s).ok /\ UrlParse(s).val.host.some

\* C8: parse_url accepts exactly the absolute URLs with a scheme and a host,
\* and returns the accepted string unchanged.
C8_SchemeAndHost ==
    pc # "start" =>
        /\ (errArg # 0) <=> HasSchemeAndHost(argv.url)
        /\ opts.some => opts.val.url = argv.url

\* C9: print_resp writes the status line, then every header once in the
\* order of the response, then the blank line, then the body.
C9_OutputOrder ==
    /\ ~resp.some => RespOut = <<>>
    /\ resp.some =>
         LET n == Len(resp.val.headers)
         IN  /\ Len(RespOut) <= n + 3
             /\ \A i \in 1..Len(RespOut) :
                  /\ i = 1 => RespOut[i] = [kind |-> "status", status |-> resp.val.status]
                  /\ (1 < i /\ i <= n + 1) =>
                        RespOut[i] = HeaderLine(resp.val.headers[i - 1])
                  /\ i = n + 2 => RespOut[i].kind = "blank"
                  /\ i = n + 3 => RespOut[i].kind = "body"
             /\ exit = "ok" => Len(RespOut) = n + 3
             /\ pc \in {"get_content_type", "text", "print_body"} =>
                  Len(RespOut) = n + 2

C9_Witness ==
    /\ exit = "ok"
    /\ Len(resp.val.headers) = 3
    /\ resp.val.headers[1].name = resp.val.headers[3].name
    /\ Len(RespOut) = 6
    /\ RespOut[4] = HeaderLine(resp.val.headers[3])

\* The arguments that do not validate, 0 for the url and i for body value i.
BadArgs ==
    {i \in {0} : ~parse_url(argv.url).ok}
    \cup {i \in 1..Len(argv.body) : ~parse_kv_pair(argv.body[i]).ok}
FirstBadArg == CHOOSE i \in BadArgs : \A j \in BadArgs : i <= j

\* C10: a request is sent only after the whole command was constructed; when
\* the url or a body value does not validate the run ends with the error of
\* the first such argument and sends nothing.
C10_NoRequestBeforeValidation ==
    /\ requests # <<>> => (opts.some /\ BadArgs = {})
    /\ (pc # "start" /\ BadArgs # {}) =>
         /\ pc = "done"
         /\ exit = "error"
         /\ errArg = FirstBadArg
         /\ ~opts.some
         /\ requests = <<>>
         /\ RespOut = <<>>

C10_Witness ==
    /\ pc = "done"
    /\ argv.subcmd = "post"
    /\ parse_url(argv.url).ok
    /\ Len(argv.body) = 3
    /\ BadArgs = {2, 3}
    /\ errArg = 2
    /\ requests = <<>>

====
